---- MODULE Spec2Model ----
(***************************************************************************)
(* Model of src/util/gif.ts: the recipe normalizer regularizeOption with   *)
(* its recursive helper regularizeOneOption, the animation compositor      *)
(* manipulate and the single-frame variant manipulateFrame.                *)
(*                                                                         *)
(* An optional field of a ManipulateOption is the empty sequence when it   *)
(* is absent and a one-element sequence holding its value when declared.   *)
(* An element of useFrames is a record: isNum tells a bare number (num)    *)
(* from an override bundle (opt).  The display-only field name is dropped  *)
(* by fixOption before anything reads it and is not part of the records.   *)
(***************************************************************************)
EXTENDS Integers, Sequences, FiniteSets, TLC

\* option:     the recipe handed to manipulate or manipulateFrame
\* frameCount: original.frames.length
\* pc:         where the call stands
\* frames:     the frames regularizeOption has produced so far
\* canvas:     size of the image of the output frame being composed
\* painted:    the elements blitted on it so far
\* output:     the GifFrames composed so far
\* single:     what manipulateFrame has painted on its image
VARIABLES option, frameCount, pc, frames, canvas, painted, output, single

vars == <<option, frameCount, pc, frames, canvas, painted, output, single>>

-----------------------------------------------------------------------------
(* Optional values and records                                             *)

None == <<>>

Some(v) == <<v>>

Has(o) == Len(o) > 0

OrElse(o, d) == IF Has(o) THEN o[1] ELSE d

EmptyOption ==
  [x |-> None, y |-> None, w |-> None, h |-> None, frame |-> None,
   scale |-> None, posX |-> None, posY |-> None,
   useFrames |-> None, blitImages |-> None]

NumEntry(n) == [isNum |-> TRUE, num |-> n, opt |-> EmptyOption]

ObjEntry(o) == [isNum |-> FALSE, num |-> 0, opt |-> o]

SeqsUpTo(S, n) == UNION {[1..k -> S] : k \in 0..n}

MaxOf(S) == CHOOSE m \in S : \A v \in S : v <= m

\* The % operator of the source: the result takes the sign of the dividend.
JsRem(a, n) == IF a >= 0 THEN a % n ELSE 0 - ((0 - a) % n)

-----------------------------------------------------------------------------
(* regularizeOption                                                        *)

useFramesLength(o) == IF Has(o.useFrames) THEN Len(o.useFrames[1]) ELSE 0

\* Variant: the overlays' useFrames are not looked at.
outputFrameCountRootOnly(opt, fc) == MaxOf({fc, useFramesLength(opt)})

outputFrameCount(opt, fc) ==
  MaxOf({fc, useFramesLength(opt)}
        \cup {useFramesLength(OrElse(opt.blitImages, <<>>)[k]) :
                k \in 1..Len(OrElse(opt.blitImages, <<>>))})

\* Variant: an index past the end takes the last entry instead of cycling.
currentUseFrameClamped(opt, index) ==
  IF useFramesLength(opt) > 0
  THEN Some(opt.useFrames[1][IF index < Len(opt.useFrames[1])
                             THEN index + 1 ELSE Len(opt.useFrames[1])])
  ELSE None

\* useFrames && useFrames[index % useFrames.length]; an empty array indexes
\* with NaN and yields undefined.
currentUseFrame(opt, index) ==
  IF useFramesLength(opt) > 0
  THEN Some(opt.useFrames[1][(index % Len(opt.useFrames[1])) + 1])
  ELSE None

\* Variant: without any declared frame the first source frame is taken.
chosenFrameZero(opt, index) ==
  LET cur == currentUseFrame(opt, index)
  IN IF Has(cur) /\ cur[1].isNum THEN cur[1].num
     ELSE IF Has(cur) /\ Has(cur[1].opt.frame) THEN cur[1].opt.frame[1]
     ELSE IF Has(opt.frame) THEN opt.frame[1]
     ELSE 0

\* Variant: the recipe's frame is tested before the bundle's.
chosenFrameOwnFirst(opt, index) ==
  LET cur == currentUseFrame(opt, index)
  IN IF Has(cur) /\ cur[1].isNum THEN cur[1].num
     ELSE IF Has(opt.frame) THEN opt.frame[1]
     ELSE IF Has(cur) /\ Has(cur[1].opt.frame) THEN cur[1].opt.frame[1]
     ELSE index

chosenFrame(opt, index) ==
  LET cur == currentUseFrame(opt, index)
  IN IF Has(cur) /\ cur[1].isNum THEN cur[1].num
     ELSE IF Has(cur) /\ Has(cur[1].opt.frame) THEN cur[1].opt.frame[1]
     ELSE IF Has(opt.frame) THEN opt.frame[1]
     ELSE index

fixedFrame(opt, index, fc) == JsRem(chosenFrame(opt, index), fc)

\* typeof currentUseFrame === "object" ? currentUseFrame : {}
overrideOf(opt, index) ==
  LET cur == currentUseFrame(opt, index)
  IN IF Has(cur) /\ ~cur[1].isNum THEN cur[1].opt ELSE EmptyOption

\* One field of { defaults, ...fixOption(opt), ...fixOption(override) }.
spread(ovr, own, dflt) ==
  IF Has(ovr) THEN ovr[1] ELSE IF Has(own) THEN own[1] ELSE dflt

mainOption(opt, index, fc) ==
  LET ov == overrideOf(opt, index)
  IN [posX  |-> spread(ov.posX, opt.posX, 0),
      posY  |-> spread(ov.posY, opt.posY, 0),
      x     |-> spread(ov.x, opt.x, 0),
      y     |-> spread(ov.y, opt.y, 0),
      w     |-> spread(ov.w, opt.w, 1),
      h     |-> spread(ov.h, opt.h, 1),
      scale |-> spread(ov.scale, opt.scale, 1),
      frame |-> fixedFrame(opt, index, fc)]

\* Variant: the bundle's overlays come before the recipe's own.
blitImagesOfBundleFirst(opt, index) ==
  OrElse(overrideOf(opt, index).blitImages, <<>>) \o OrElse(opt.blitImages, <<>>)

blitImagesOf(opt, index) ==
  OrElse(opt.blitImages, <<>>) \o OrElse(overrideOf(opt, index).blitImages, <<>>)

\* biOption.scale || 1
scaleOr1(bi) == IF Has(bi.scale) /\ bi.scale[1] # 0 THEN bi.scale[1] ELSE 1

\* { ...mainOption, ...biOption, scale: mainOption.scale * (biOption.scale || 1) }
\* where biOption is the overlay without posX and posY.
childOption(main, bi) ==
  [x     |-> IF Has(bi.x) THEN bi.x ELSE Some(main.x),
   y     |-> IF Has(bi.y) THEN bi.y ELSE Some(main.y),
   w     |-> IF Has(bi.w) THEN bi.w ELSE Some(main.w),
   h     |-> IF Has(bi.h) THEN bi.h ELSE Some(main.h),
   frame |-> IF Has(bi.frame) THEN bi.frame ELSE Some(main.frame),
   scale |-> Some(main.scale * scaleOr1(bi)),
   posX  |-> Some(main.posX),
   posY  |-> Some(main.posY),
   useFrames  |-> bi.useFrames,
   blitImages |-> bi.blitImages]

\* Variant: the offset is not multiplied by the scale.
translateUnscaled(main, bi, inner) ==
  [inner EXCEPT !.posX = OrElse(bi.posX, 0) + inner.posX,
                !.posY = OrElse(bi.posY, 0) + inner.posY]

\* ({ posX: posXInner, posY: posYInner, ...bio }) => ({ ...bio, posX: ..., posY: ... })
translate(main, bi, inner) ==
  [inner EXCEPT !.posX = OrElse(bi.posX, 0) * main.scale + inner.posX,
                !.posY = OrElse(bi.posY, 0) * main.scale + inner.posY]

RECURSIVE regularizeOneOption(_, _, _)
regularizeOneOption(opt, index, fc) ==
  LET main == mainOption(opt, index, fc)
      bis == blitImagesOf(opt, index)
      sub(k) == regularizeOneOption(childOption(main, bis[k]), index, fc)
      RECURSIVE flat(_)
      flat(k) ==
        IF k > Len(bis) THEN <<>>
        ELSE [j \in 1..Len(sub(k)) |-> translate(main, bis[k], sub(k)[j])]
             \o flat(k + 1)
  IN <<main>> \o flat(1)

regularizeOption(opt, fc) ==
  [k \in 1..outputFrameCount(opt, fc) |-> regularizeOneOption(opt, k - 1, fc)]

-----------------------------------------------------------------------------
(* manipulate                                                              *)

\* Size of the decoded source frames (original.frames[i].bitmap).
SourceSize == [w |-> 8, h |-> 8]

validFrame(f, fc) == f >= 0 /\ f < fc

\* manipulateOneFrame of manipulate: the size of the cropped, scaled bitmap.
manipulateOneFrame(o) ==
  IF o.w > 0 /\ o.h > 0
  THEN [w |-> o.w * o.scale, h |-> o.h * o.scale]
  ELSE [w |-> SourceSize.w * o.scale, h |-> SourceSize.h * o.scale]

\* Variant: the widest element, wherever it sits.
boundingWidthNoPos(images) ==
  MaxOf({images[k].w * images[k].scale : k \in 1..Len(images)})

boundingWidth(images) ==
  MaxOf({images[k].posX + images[k].w * images[k].scale : k \in 1..Len(images)})

boundingHeight(images) ==
  MaxOf({images[k].posY + images[k].h * images[k].scale : k \in 1..Len(images)})

-----------------------------------------------------------------------------
(* manipulateFrame                                                         *)

\* The shape ManipulateFrameOption requires: no useFrames, and x, y, w, h
\* and frame declared on every node.
RECURSIVE isFrameOption(_)
isFrameOption(o) ==
  /\ Has(o.x) /\ Has(o.y) /\ Has(o.w) /\ Has(o.h) /\ Has(o.frame)
  /\ ~Has(o.useFrames)
  /\ \A k \in 1..Len(OrElse(o.blitImages, <<>>)) : isFrameOption(o.blitImages[1][k])

RECURSIVE allFramesValid(_, _)
allFramesValid(o, fc) ==
  /\ validFrame(o.frame[1], fc)
  /\ \A k \in 1..Len(OrElse(o.blitImages, <<>>)) : allFramesValid(o.blitImages[1][k], fc)

\* Variant: the overlay's scale alone.
frameChildScaleOwn(bi, fixScale) == OrElse(bi.scale, 1)

\* scale: (biOpt.scale ?? 1) * fixScale
frameChildScale(bi, fixScale) == OrElse(bi.scale, 1) * fixScale

\* jimp.blit(biJimp, (biOpt.posX ?? 0) * fixScale, (biOpt.posY ?? 0) * fixScale):
\* what is painted on biJimp lands on jimp moved by the blit offset.
frameBlit(bi, fixScale, inner) ==
  [inner EXCEPT !.posX = OrElse(bi.posX, 0) * fixScale + inner.posX,
                !.posY = OrElse(bi.posY, 0) * fixScale + inner.posY]

\* manipulateOneFrame of manipulateFrame: the bitmaps painted on the returned
\* image in paint order, each with the scale it was rendered at and its
\* offset from the returned image's origin.
RECURSIVE manipulateOneFrameSingle(_)
manipulateOneFrameSingle(o) ==
  LET fixScale == OrElse(o.scale, 1)
      bis == OrElse(o.blitImages, <<>>)
      sub(k) == manipulateOneFrameSingle(
                  [bis[k] EXCEPT !.scale = Some(frameChildScale(bis[k], fixScale))])
      RECURSIVE paint(_)
      paint(k) ==
        IF k > Len(bis) THEN <<>>
        ELSE [j \in 1..Len(sub(k)) |-> frameBlit(bis[k], fixScale, sub(k)[j])]
             \o paint(k + 1)
  IN << [x |-> o.x[1], y |-> o.y[1], w |-> o.w[1], h |-> o.h[1],
         frame |-> o.frame[1], scale |-> fixScale, posX |-> 0, posY |-> 0] >>
     \o paint(1)

-----------------------------------------------------------------------------
(* Inputs                                                                  *)

MaxFrameCount == 2

MaxUseFrames == 3

FrameCounts == 1..MaxFrameCount

Scales == {None, Some(2), Some(3)}

Offsets ==
  {[posX |-> None, posY |-> None],
   [posX |-> Some(1), posY |-> Some(2)],
   [posX |-> Some(3), posY |-> None]}

NoCrop == [x |-> None, y |-> None, w |-> None, h |-> None]

PartCrop == [x |-> Some(1), y |-> None, w |-> Some(3), h |-> None]

FullCrop == [x |-> Some(2), y |-> Some(1), w |-> Some(2), h |-> Some(4)]

LeafCrop == [x |-> Some(1), y |-> Some(0), w |-> Some(3), h |-> Some(1)]

Node(crop, fr, sc, off, uf, bis) ==
  [x |-> crop.x, y |-> crop.y, w |-> crop.w, h |-> crop.h, frame |-> fr,
   scale |-> sc, posX |-> off.posX, posY |-> off.posY,
   useFrames |-> uf, blitImages |-> bis]

NoOffset == [posX |-> None, posY |-> None]

\* Overlay lists: none, one overlay, one overlay with a sub-overlay, two overlays.
Trees(Children, Leaves) ==
  {None}
  \cup {Some(<<c>>) : c \in Children}
  \cup {Some(<<[c EXCEPT !.blitImages = Some(<<g>>)]>>) : c \in Children, g \in Leaves}
  \cup {Some(<<c, g>>) : c \in Children, g \in Leaves}

\* Flat recipes: frame selection by the recipe, by bare numbers and by bundles.
FrameEntries ==
  {NumEntry(-1), NumEntry(1)}
  \cup {ObjEntry([EmptyOption EXCEPT !.frame = f]) :
          f \in {None, Some(0), Some(MaxFrameCount)}}

FrameRecipes ==
  {Node(NoCrop, fr, None, NoOffset, uf, None) :
     fr \in {None, Some(-1), Some(1)},
     uf \in {None} \cup {Some(s) : s \in SeqsUpTo(FrameEntries, MaxUseFrames)}}

\* Overlay trees without useFrames: inherited crops, scales and offsets.
OverlayLeaves ==
  {Node(NoCrop, None, sc, off, None, None) :
     sc \in Scales, off \in Offsets \ {NoOffset}}

OverlayChildren ==
  {Node(crop, None, sc, off, None, None) :
     crop \in {NoCrop, PartCrop}, sc \in Scales, off \in Offsets}

OverlayRecipes ==
  {Node(crop, None, sc, NoOffset, None, bis) :
     crop \in {NoCrop, FullCrop}, sc \in Scales,
     bis \in Trees(OverlayChildren, OverlayLeaves)}

\* Trees of the shape ManipulateFrameOption: every node declares its crop and frame.
DeclaredLeaves ==
  {Node(LeafCrop, Some(0), sc, off, None, None) :
     sc \in Scales, off \in Offsets \ {NoOffset}}

DeclaredRecipes ==
  {Node(FullCrop, Some(fr), sc, NoOffset, None, bis) :
     fr \in {0, 1}, sc \in Scales,
     bis \in Trees(DeclaredLeaves, DeclaredLeaves)}

\* Recipes whose root cycles through bundles that carry a scale or overlays.
PlainLeaf == Node(NoCrop, None, Some(2), [posX |-> Some(1), posY |-> Some(2)], None, None)

BundleLeaf == Node(PartCrop, None, Some(3), [posX |-> Some(2), posY |-> Some(1)], None, None)

CyclingLeaf ==
  [BundleLeaf EXCEPT !.useFrames =
     Some([k \in 1..MaxUseFrames + 1 |-> NumEntry(k % 2)])]

BundleEntries ==
  {NumEntry(1),
   ObjEntry(EmptyOption),
   ObjEntry([EmptyOption EXCEPT !.scale = Some(3)]),
   ObjEntry([EmptyOption EXCEPT !.blitImages = Some(<<BundleLeaf>>)])}

RootBundleRecipes ==
  {Node(NoCrop, None, sc, NoOffset, Some(uf), bis) :
     sc \in {None, Some(2)},
     uf \in SeqsUpTo(BundleEntries, MaxUseFrames),
     bis \in {None, Some(<<PlainLeaf>>)}}

\* Recipes whose overlay cycles through its own useFrames.
OverlayEntries ==
  {NumEntry(1),
   ObjEntry(EmptyOption),
   ObjEntry([EmptyOption EXCEPT !.scale = Some(2)]),
   ObjEntry([EmptyOption EXCEPT !.frame = Some(0), !.w = Some(5)])}

OverlayBundleRecipes ==
  {Node(NoCrop, None, sc, NoOffset, None,
        Some(<<Node(NoCrop, None, csc, [posX |-> Some(1), posY |-> Some(2)],
                    Some(uf), bis)>>)) :
     sc \in {Some(2)}, csc \in {None, Some(3)},
     uf \in SeqsUpTo(OverlayEntries, MaxUseFrames),
     bis \in {None, Some(<<PlainLeaf>>)}}

\* Recipes whose root and overlay both cycle, with independent lengths.
NumSeqs == SeqsUpTo({NumEntry(0), NumEntry(1)}, MaxUseFrames)

BothCycleRecipes ==
  {Node(NoCrop, fr, None, NoOffset, Some(uf),
        Some(<<[PlainLeaf EXCEPT !.useFrames = Some(cuf)]>>)) :
     fr \in {None, Some(0)},
     uf \in {[k \in 1..n |-> NumEntry(k % 2)] : n \in 1..MaxUseFrames},
     cuf \in NumSeqs \ {<<>>}}

\* Recipes whose longest useFrames sits below the root's direct overlays, or
\* in an overlay that an override bundle supplies.
DeepCycleRecipes ==
  {Node(NoCrop, None, None, NoOffset, uf,
        Some(<<[PlainLeaf EXCEPT !.useFrames = cuf,
                                 !.blitImages = Some(<<CyclingLeaf>>)]>>)) :
     uf \in {None, Some(<<NumEntry(0)>>)},
     cuf \in {None, Some([k \in 1..MaxUseFrames |-> NumEntry(k % 2)])}}
  \cup
  {Node(NoCrop, None, None, NoOffset,
        Some(<<ObjEntry([EmptyOption EXCEPT !.blitImages = Some(<<CyclingLeaf>>)])>>),
        bis) :
     bis \in {None, Some(<<PlainLeaf>>)}}

\* The scenarios the documentation names.
ExampleCycle ==
  Node(NoCrop, Some(0), None, NoOffset,
       Some(<<NumEntry(0), NumEntry(1), NumEntry(2), NumEntry(0), NumEntry(1)>>), None)

ExampleScale ==
  Node([x |-> Some(0), y |-> Some(0), w |-> Some(4), h |-> Some(4)],
       None, Some(2), NoOffset, None, None)

ExampleBox ==
  Node([x |-> Some(0), y |-> Some(0), w |-> Some(10), h |-> Some(10)],
       None, Some(1), NoOffset, None,
       Some(<<Node([x |-> Some(0), y |-> Some(0), w |-> Some(5), h |-> Some(5)],
                   None, Some(1), [posX |-> Some(8), posY |-> Some(8)], None, None)>>))

Examples == {<<ExampleCycle, 3>>, <<ExampleScale, 3>>, <<ExampleBox, 3>>}

Recipes ==
  FrameRecipes \cup OverlayRecipes \cup DeclaredRecipes \cup RootBundleRecipes
  \cup OverlayBundleRecipes \cup BothCycleRecipes \cup DeepCycleRecipes

Inputs == (Recipes \X FrameCounts) \cup Examples

-----------------------------------------------------------------------------
(* State machine                                                           *)

NoCanvas == [w |-> 0, h |-> 0]

Init ==
  /\ \E in \in Inputs : option = in[1] /\ frameCount = in[2]
  /\ pc = "idle"
  /\ frames = <<>>
  /\ canvas = NoCanvas
  /\ painted = <<>>
  /\ output = <<>>
  /\ single = <<>>

\* manipulate is called: regularizeOption starts on the recipe.
Manipulate ==
  /\ pc = "idle"
  /\ pc' = "regularize"
  /\ UNCHANGED <<option, frameCount, frames, canvas, painted, output, single>>

\* One callback of Array.from({ length: outputFrameCount }).map(...).
RegularizeFrame ==
  /\ pc = "regularize"
  /\ Len(frames) < outputFrameCount(option, frameCount)
  /\ frames' = Append(frames, regularizeOneOption(option, Len(frames), frameCount))
  /\ pc' = IF Len(frames') = outputFrameCount(option, frameCount)
           THEN "begin" ELSE "regularize"
  /\ UNCHANGED <<option, frameCount, canvas, painted, output, single>>

\* Start of one callback of regularizedOption.frames.map: the 1x1 base image
\* is taken from the main element's source frame and resized.
BeginFrame ==
  /\ pc = "begin"
  /\ Len(output) < Len(frames)
  /\ LET images == frames[Len(output) + 1]
     IN IF validFrame(images[1].frame, frameCount)
        THEN /\ canvas' = [w |-> boundingWidth(images), h |-> boundingHeight(images)]
             /\ pc' = "blit"
        ELSE /\ canvas' = canvas
             /\ pc' = "failed"
  /\ painted' = <<>>
  /\ UNCHANGED <<option, frameCount, frames, output, single>>

\* One iteration of for (const biOpt of images).
Blit ==
  /\ pc = "blit"
  /\ LET images == frames[Len(output) + 1]
     IN /\ Len(painted) < Len(images)
        /\ LET biOpt == images[Len(painted) + 1]
           IN IF validFrame(biOpt.frame, frameCount)
              THEN /\ painted' = Append(painted,
                          [posX |-> biOpt.posX, posY |-> biOpt.posY,
                           size |-> manipulateOneFrame(biOpt)])
                   /\ pc' = "blit"
              ELSE /\ painted' = painted
                   /\ pc' = "failed"
  /\ UNCHANGED <<option, frameCount, frames, canvas, output, single>>

\* End of the callback: the GifFrame carries the main element's metadata.
EmitFrame ==
  /\ pc = "blit"
  /\ LET images == frames[Len(output) + 1]
     IN /\ Len(painted) = Len(images)
        /\ output' = Append(output, [meta |-> images[1].frame, bitmap |-> canvas])
  /\ pc' = IF Len(output') = Len(frames) THEN "write" ELSE "begin"
  /\ UNCHANGED <<option, frameCount, frames, canvas, painted, single>>

\* GifUtil.write of the composed frames.
Write ==
  /\ pc = "write"
  /\ pc' = "written"
  /\ UNCHANGED <<option, frameCount, frames, canvas, painted, output, single>>

\* manipulateFrame on a recipe of the shape ManipulateFrameOption.
ManipulateFrame ==
  /\ pc = "idle"
  /\ isFrameOption(option)
  /\ IF allFramesValid(option, frameCount)
     THEN /\ single' = manipulateOneFrameSingle(option)
          /\ pc' = "frameDone"
     ELSE /\ single' = single
          /\ pc' = "failed"
  /\ UNCHANGED <<option, frameCount, frames, canvas, painted, output>>

Next ==
  \/ Manipulate
  \/ RegularizeFrame
  \/ BeginFrame
  \/ Blit
  \/ EmitFrame
  \/ Write
  \/ ManipulateFrame

Spec == Init /\ [][Next]_vars

-----------------------------------------------------------------------------
(* Vocabulary of the properties                                            *)

\* regularizeOption has just returned: frames holds the plan it produced,
\* which no later step changes.
planDone == pc = "begin" /\ output = <<>>

ownOverlays(o) == OrElse(o.blitImages, <<>>)

entriesOf(o) == OrElse(o.useFrames, <<>>)

\* The useFrames entry an index selects on a node, as a set of zero or one.
selectedEntries(o, i) ==
  IF Len(entriesOf(o)) = 0 THEN {}
  ELSE {entriesOf(o)[(i % Len(entriesOf(o))) + 1]}

\* The override bundle an index selects on a node (no field declared if none).
selectedBundle(o, i) ==
  IF \E e \in selectedEntries(o, i) : ~e.isNum
  THEN (CHOOSE e \in selectedEntries(o, i) : TRUE).opt
  ELSE EmptyOption

\* The overlay list of a node at an index: its own, then the bundle's.
overlaysAt(o, i) == ownOverlays(o) \o ownOverlays(selectedBundle(o, i))

\* Every overlay a node can get below it, at any depth and through any bundle.
RECURSIVE allOverlays(_)
allOverlays(o) ==
  LET direct == {ownOverlays(o)[k] : k \in 1..Len(ownOverlays(o))}
                \cup UNION {{ownOverlays(entriesOf(o)[n].opt)[k] :
                               k \in 1..Len(ownOverlays(entriesOf(o)[n].opt))} :
                            n \in 1..Len(entriesOf(o))}
  IN direct \cup UNION {allOverlays(c) : c \in direct}

\* The node tree at an index in depth-first pre-order: for each node its
\* recipe and the position in the list of the node it is attached to
\* (0 for the root).
RECURSIVE layout(_, _, _, _)
layout(o, i, me, parent) ==
  LET ovs == overlaysAt(o, i)
      RECURSIVE kids(_, _)
      kids(k, next) ==
        IF k > Len(ovs) THEN <<>>
        ELSE LET subtree == layout(ovs[k], i, next, me)
             IN subtree \o kids(k + 1, next + Len(subtree))
  IN <<[node |-> o, parent |-> parent]>> \o kids(1, me + 1)

planLayout(i) == layout(option, i, 1, 0)

-----------------------------------------------------------------------------
\* C1: regularizeOption returns exactly outputFrameCount frames, the largest
\* of frameCount, the length of the root's useFrames and the lengths of the
\* useFrames of the root's direct overlays; longer useFrames further down,
\* or on overlays that an override bundle supplies, add no frame.
C1_OutputLength ==
  planDone =>
    LET lens == {frameCount, Len(entriesOf(option))}
                \cup {Len(entriesOf(ownOverlays(option)[k])) :
                        k \in 1..Len(ownOverlays(option))}
    IN /\ Len(frames) \in lens
       /\ \A n \in lens : n <= Len(frames)

\* A complete plan that is shorter than the useFrames of some deeper overlay.
C1_Witness ==
  /\ planDone
  /\ \E c \in allOverlays(option) : Len(entriesOf(c)) > Len(frames)
  /\ \E k \in 1..Len(ownOverlays(option)) :
       Len(entriesOf(ownOverlays(option)[k])) = Len(frames)
       /\ Len(frames) > frameCount

\* C2: every resolved element of every output frame has its frame in
\* [0, frameCount), also when a declared frame is negative or too large.
C2_FrameInRange ==
  planDone => \A k \in 1..Len(frames) : \A j \in 1..Len(frames[k]) :
    frames[k][j].frame \in 0..(frameCount - 1)

\* C6 as stated: a recipe without useFrames and blitImages gives frameCount
\* frames of one element each, the element of frame i selecting source frame i.
C6_PlainRecipe ==
  (planDone /\ ~Has(option.useFrames) /\ ~Has(option.blitImages)) =>
    /\ Len(frames) = frameCount
    /\ \A k \in 1..Len(frames) :
         Len(frames[k]) = 1 /\ frames[k][1].frame = k - 1

\* C6 amended: the same for a recipe that declares no frame either.
C6_PlainRecipeNoFrame ==
  (planDone /\ ~Has(option.useFrames) /\ ~Has(option.blitImages)
     /\ ~Has(option.frame)) =>
    /\ Len(frames) = frameCount
    /\ \A k \in 1..Len(frames) :
         Len(frames[k]) = 1 /\ frames[k][1].frame = k - 1

\* A complete plan of several frames for such a recipe.
C6_Witness ==
  /\ planDone
  /\ ~Has(option.useFrames) /\ ~Has(option.blitImages) /\ ~Has(option.frame)
  /\ frameCount >= 2
  /\ Len(frames) = frameCount

RECURSIVE productScales(_, _, _)
productScales(o, i, above) ==
  LET own == above * spread(selectedBundle(o, i).scale, o.scale, 1)
      ovs == overlaysAt(o, i)
      RECURSIVE kids(_)
      kids(k) == IF k > Len(ovs) THEN <<>>
                 ELSE productScales(ovs[k], i, own) \o kids(k + 1)
  IN <<own>> \o kids(1)

\* C3: the resolved scale of every overlay is the product of the declared
\* scales along its chain from the root down to itself, a node's declared
\* scale being the one of its selected override bundle, else its own, else 1.
C3_CumulativeScale ==
  planDone => \A k \in 1..Len(frames) : \A j \in 2..Len(frames[k]) :
    frames[k][j].scale = productScales(option, k - 1, 1)[j]

\* C4: every overlay element sits at the resolved position of the element it
\* is attached to plus its declared offset (default 0) times the resolved
\* scale of that element.
C4_AbsolutePosition ==
  planDone => \A k \in 1..Len(frames) :
    LET lay == planLayout(k - 1)
        images == frames[k]
    IN \A j \in 2..Len(images) :
         LET up == images[lay[j].parent]
         IN /\ images[j].posX = up.posX + OrElse(lay[j].node.posX, 0) * up.scale
            /\ images[j].posY = up.posY + OrElse(lay[j].node.posY, 0) * up.scale

\* An overlay with an offset of its own, attached to a scaled overlay that
\* is itself moved off its scaled root.
C4_Witness ==
  /\ planDone
  /\ \E k \in 1..Len(frames) :
       LET lay == planLayout(k - 1)
           images == frames[k]
       IN \E j \in 2..Len(images) :
            /\ lay[j].parent >= 2
            /\ Has(lay[j].node.posX) /\ Has(lay[j].node.posY)
            /\ images[lay[j].parent].scale > images[1].scale
            /\ images[lay[j].parent].posX > 0
            /\ images[1].scale > 1
            /\ images[j].posX # images[j].posY

\* C5 as stated: with useFrames of length L > frameCount, resolving at
\* index i and at index i + L gives the same elements.
C5_Cycle ==
  (planDone /\ Len(entriesOf(option)) > frameCount) =>
    \A k \in 1..Len(frames) :
      frames[k] = regularizeOneOption(option, (k - 1) + Len(entriesOf(option)), frameCount)

\* The root never falls back on the index for its frame.
framePinned(o) ==
  \/ Has(o.frame)
  \/ \A n \in 1..Len(entriesOf(o)) :
       entriesOf(o)[n].isNum \/ Has(entriesOf(o)[n].opt.frame)

\* C5 amended: the same when moreover L is a multiple of the useFrames
\* length of every overlay, and the root declares frame, or each of its
\* useFrames entries is a number or a bundle with a frame, or L is a
\* multiple of frameCount.
C5_CycleAligned ==
  LET L == Len(entriesOf(option))
  IN (/\ planDone
      /\ L > frameCount
      /\ framePinned(option) \/ L % frameCount = 0
      /\ \A c \in allOverlays(option) :
           Len(entriesOf(c)) > 0 => L % Len(entriesOf(c)) = 0) =>
       \A k \in 1..Len(frames) :
         frames[k] = regularizeOneOption(option, (k - 1) + L, frameCount)

\* A complete plan of such a recipe whose overlay cycles too and whose
\* frames differ from one another.
C5_Witness ==
  LET L == Len(entriesOf(option))
  IN /\ planDone
     /\ L > frameCount
     /\ framePinned(option) \/ L % frameCount = 0
     /\ \A c \in allOverlays(option) :
          Len(entriesOf(c)) > 0 => L % Len(entriesOf(c)) = 0
     /\ \E c \in allOverlays(option) : Len(entriesOf(c)) > 1
     /\ frames[1] # frames[2]
     /\ Len(frames) = L

\* C8: the canvas of an output frame is resized, before anything is painted
\* on it, to the largest posX + w*scale by the largest posY + h*scale of the
\* frame's elements; the 10x10 root with a 5x5 overlay at (8,8) gets 13x13
\* and {x:0,y:0,w:4,h:4,scale:2} gets 8x8 in every frame.
C8_BoundingBox ==
  LET right(e) == e.posX + e.w * e.scale
      bottom(e) == e.posY + e.h * e.scale
      fits(box, images) ==
        /\ \A j \in 1..Len(images) :
             right(images[j]) <= box.w /\ bottom(images[j]) <= box.h
        /\ \E j \in 1..Len(images) : right(images[j]) = box.w
        /\ \E j \in 1..Len(images) : bottom(images[j]) = box.h
  IN /\ pc = "blit" => fits(canvas, frames[Len(output) + 1])
     /\ \A k \in 1..Len(output) : fits(output[k].bitmap, frames[k])
     /\ (option = ExampleBox /\ pc = "blit") => canvas = [w |-> 13, h |-> 13]
     /\ (option = ExampleScale /\ pc = "blit") => canvas = [w |-> 8, h |-> 8]

\* A canvas that an overlay makes wider and higher than the main element,
\* with every element painted.
C8_Witness ==
  /\ pc = "blit"
  /\ LET images == frames[Len(output) + 1]
     IN /\ Len(painted) = Len(images)
        /\ Len(images) >= 2
        /\ canvas.w > images[1].w * images[1].scale
        /\ canvas.h > images[1].h * images[1].scale
        /\ canvas.w # canvas.h

\* C9: the images of an output frame are the nodes of the overlay tree in
\* depth-first pre-order, one element per node, a node's overlays being its
\* own blitImages followed by those of its selected override bundle: the
\* element at each position carries the crop of the node at that position
\* (the bundle's, else the node's own, else the one of the element it is
\* attached to, else the default).
C9_PreOrder ==
  planDone => \A k \in 1..Len(frames) :
    LET lay == planLayout(k - 1)
        images == frames[k]
        bundle(j) == selectedBundle(lay[j].node, k - 1)
        up(j) == images[lay[j].parent]
    IN /\ Len(images) = Len(lay)
       /\ \A j \in 1..Len(images) :
            /\ images[j].x = spread(bundle(j).x, lay[j].node.x,
                                    IF j = 1 THEN 0 ELSE up(j).x)
            /\ images[j].y = spread(bundle(j).y, lay[j].node.y,
                                    IF j = 1 THEN 0 ELSE up(j).y)
            /\ images[j].w = spread(bundle(j).w, lay[j].node.w,
                                    IF j = 1 THEN 1 ELSE up(j).w)
            /\ images[j].h = spread(bundle(j).h, lay[j].node.h,
                                    IF j = 1 THEN 1 ELSE up(j).h)

\* A frame whose root has an overlay of its own and one from the selected
\* bundle, with different crops.
C9_Witness ==
  /\ planDone
  /\ \E k \in 1..Len(frames) :
       /\ Len(ownOverlays(option)) > 0
       /\ Len(ownOverlays(selectedBundle(option, k - 1))) > 0
       /\ Len(frames[k]) = 3
       /\ frames[k][2].x # frames[k][3].x

\* C10: manipulateFrame renders each overlay at the scale, and paints it at
\* the position on the root image, that regularizeOption resolves for it.
C10_SingleFrameAgrees ==
  pc = "frameDone" =>
    \A i \in 0..(outputFrameCount(option, frameCount) - 1) :
      LET images == regularizeOneOption(option, i, frameCount)
      IN /\ Len(single) = Len(images)
         /\ \A j \in 1..Len(single) :
              /\ single[j].scale = images[j].scale
              /\ single[j].posX = images[j].posX
              /\ single[j].posY = images[j].posY

\* A single frame with a scaled overlay on a scaled overlay on a scaled
\* root, both overlays moved.
C10_Witness ==
  /\ pc = "frameDone"
  /\ Len(ownOverlays(option)) = 1
  /\ Len(single) = 3
  /\ single[1].scale > 1
  /\ single[2].scale > single[1].scale
  /\ single[3].scale > single[2].scale
  /\ single[2].posX > 0
  /\ single[3].posX > single[2].posX
  /\ single[3].posY > single[2].posY

====
